---- MODULE Spec2Model ----
(***************************************************************************)
(* The driver loop of main.js with the effects stack (effects.js), the     *)
(* audio layer (audio.js) and the world update (world.js).                 *)
(*                                                                         *)
(* Numbers.  The program computes with IEEE doubles; the model computes in *)
(* fixed point, one unit being 1/Scale = 1e-7, and rounds every product to *)
(* the nearest unit.  Distances are kept in thousandths of a world unit.   *)
(* A JavaScript value that may be undefined or NaN is a record             *)
(* [t |-> "num" | "nan" | "undef", v |-> units].                           *)
(*                                                                         *)
(* Scheduling.  The host runs one callback at a time to completion, so     *)
(* every handler (a frame, a key press, a resize, a load completion) is    *)
(* one action.  The rotation of the animated objects in updateWorld is     *)
(* left out: nothing else reads it.                                        *)
(*                                                                         *)
(* Specifications.  Spec has the frames, the listeners, the music and the  *)
(* pill sound, with the camera anywhere, and follows a boost for           *)
(* MaxBoostFrames frames; SpecDecay follows a boost until it has died out, *)
(* in a narrower environment; SpecAudio has the frames and the loads of    *)
(* the looping sources (music, heartbeats, ambient sounds), which nothing  *)
(* else reads; SpecHooks has the exported hooks of effects.js and audio.js *)
(* called in any order, from before their set-up on.                       *)
(*                                                                         *)
(* History.  frame, pillFrames and lastTrigger record what the handlers    *)
(* did; no handler reads them.  In SpecHooks frame.calls holds the last    *)
(* two hook calls.                                                         *)
(***************************************************************************)
EXTENDS Integers, Sequences, FiniteSets, TLC

\* ---------------------------------------------------------------- numbers

Scale == 10000000

Min(a, b) == IF a <= b THEN a ELSE b

Abs(a) == IF a < 0 THEN 0 - a ELSE a

\* x * num / den rounded to the nearest unit (x >= 0)
MulRound(x, num, den) == (x * num + den \div 2) \div den

RECURSIVE SqrtSearch(_, _, _)
SqrtSearch(n, lo, hi) ==
    IF lo >= hi THEN lo
    ELSE LET mid == (lo + hi + 1) \div 2
         IN  IF mid * mid <= n THEN SqrtSearch(n, mid, hi)
                               ELSE SqrtSearch(n, lo, mid - 1)

\* floor of the square root; 46340 is the largest root of a 32-bit integer
ISqrt(n) == SqrtSearch(n, 0, 46340)

\* JavaScript numbers that may be undefined or NaN
Num(v) == [t |-> "num", v |-> v]
NaN == [t |-> "nan", v |-> 0]
Undefined == [t |-> "undef", v |-> 0]

\* a + b and a * (num/den) of JavaScript: undefined becomes NaN, NaN spreads
JAdd(a, b) == IF a.t = "num" /\ b.t = "num" THEN Num(a.v + b.v) ELSE NaN
JScale(a, num, den) ==
    IF a.t = "num"
    THEN Num(IF a.v >= 0 THEN MulRound(a.v, num, den)
                         ELSE 0 - MulRound(0 - a.v, num, den))
    ELSE NaN

\* ----------------------------------------------------------------- bounds

\* anomaly zones and teleporters built by buildWorld (20 and 10 in the code)
NumAnomalies == 5
NumTeleporters == 1

\* heartbeat and ambient sources set up by setupAudio (6 and 12 in the code)
NumHeartbeats == 2
NumAmbient == 2

\* frames counted since the last pill trigger
FrameCap == 460

\* frames Spec follows a decaying boost for (SpecDecay follows it to the end)
MaxBoostFrames == 3

\* ------------------------------------------------------------------ world

\* One layout buildWorld can produce (horizontal radius in [150, 650),
\* height in [10, 110)): four zones clustered around (150, 10, 0), the others
\* alone.
AnomalyAt(i) ==
    CASE i = 1 -> <<150, 10, 0>>
      [] i = 2 -> <<153, 10, 4>>
      [] i = 3 -> <<156, 10, 0>>
      [] i = 4 -> <<150, 14, 0>>
      [] OTHER -> <<0, 10, 300 + 100 * (i - 5)>>

\* the exported list, filled once by buildWorld and only read afterwards
anomalyPositions == [i \in 1 .. NumAnomalies |-> AnomalyAt(i)]

\* the positions the fly controls take the camera to
CameraStart == <<0, 10, 20>>
CameraSites ==
    { CameraStart,
      <<0, 10, 300>>,      \* on anomaly 5
      <<0, 10, 280>>,      \* 20 from anomaly 5
      <<0, 10, 260>>,      \* 40 from anomaly 5
      <<1, 11, 301>>,      \* sqrt(3) from anomaly 5
      <<0, 10, 339>>,      \* 39 from anomaly 5
      <<150, 10, 0>>,      \* inside the cluster
      <<170, 10, 0>> }     \* at the rim of the cluster

\* elapsed time at a frame, as the quarter of the pulse period it falls on:
\* time * 3 = k * pi / 2
Quarters == 0 .. 3
SinQuarter(k) == CASE k = 0 -> 0 [] k = 1 -> Scale [] k = 2 -> 0 [] OTHER -> 0 - Scale

\* window sizes (innerWidth, innerHeight)
InitialWindow == <<1280, 720>>
WindowSizes == { <<1280, 720>>, <<1920, 1080>>, <<800, 600>> }

KeyCodes == { "KeyE", "KeyW", "Space" }

\* intensities the hooks are called with and the mappings are compared on
EffectSamples == { 0, 1, 2, 3, 1650000, 3300000, 9702990, 9900000, Scale - 1, Scale }

\* ------------------------------------------------------------------ state

VARIABLES
    camera,            \* [position, aspect]
    window,            \* <<innerWidth, innerHeight>>
    rendererSize,      \* renderer.setSize
    composerSize,      \* composer.setSize
    pulsatingLights,   \* intensity of each tracked light
    passes,            \* bloomPass, rgbShiftPass, filmPass, vignettePass
    backgroundMusic,   \* the THREE.Audio of the music (see NewAudio)
    pillSound,         \* the THREE.Audio of the pill sound
    heartbeatSounds,   \* the PositionalAudio of each heartbeat position
    ambientSounds,     \* the PositionalAudio of each ambient sound
    pillIntensity,     \* main.js
    pending,           \* invocations of animate waiting to run
    listening,         \* the resize and keydown listeners are registered
    frame,             \* what the last frame computed and called, in order
    pillFrames,        \* frames run since the last pill trigger (capped)
    lastTrigger        \* what the last pill trigger found: the sound silent,
                       \* idle or playing ("none" before the first trigger)

vars == << camera, window, rendererSize, composerSize, pulsatingLights,
           passes, backgroundMusic, pillSound, pillIntensity,
           pending, listening, frame, pillFrames, lastTrigger,
           heartbeatSounds, ambientSounds >>

\* the sources only their own load callbacks touch
positionalSounds == << heartbeatSounds, ambientSounds >>

\* --------------------------------------------------------- world.js

\* updateWorld(time, intensity): every tracked light gets
\* 1.5 + intensity * 1.5 + Math.sin(time * 3) * 0.5
UpdateWorld(time, intensity, lights) ==
    [l \in DOMAIN lights |->
        JAdd(JAdd(Num(MulRound(Scale, 3, 2)), JScale(intensity, 3, 2)),
             JScale(Num(SinQuarter(time)), 1, 2))]

\* the lights buildWorld tracks: PointLight(.., 1.5, 50) per teleporter, then
\* PointLight(.., 2, 80) per anomaly zone
BuiltLights ==
    [l \in 1 .. (NumTeleporters + NumAnomalies) |->
        IF l <= NumTeleporters THEN Num(MulRound(Scale, 3, 2)) ELSE Num(2 * Scale)]

\* -------------------------------------------------------- effects.js

\* the passes as setupEffects leaves them
BuiltPasses ==
    [ bloomPass    |-> [present |-> TRUE,
                        strength |-> MulRound(Scale, 12, 10),
                        radius |-> MulRound(Scale, 5, 10)],
      rgbShiftPass |-> [present |-> TRUE, amount |-> MulRound(Scale, 25, 10000)],
      filmPass     |-> [present |-> TRUE,
                        nIntensity |-> MulRound(Scale, 35, 100),
                        sIntensity |-> MulRound(Scale, 5, 10)],
      vignettePass |-> [present |-> TRUE,
                        offset |-> MulRound(Scale, 8, 10),
                        darkness |-> MulRound(Scale, 12, 10)] ]

\* the module-level references before setupEffects has run
NoPasses ==
    [ bloomPass    |-> [present |-> FALSE, strength |-> 0, radius |-> 0],
      rgbShiftPass |-> [present |-> FALSE, amount |-> 0],
      filmPass     |-> [present |-> FALSE, nIntensity |-> 0, sIntensity |-> 0],
      vignettePass |-> [present |-> FALSE, offset |-> 0, darkness |-> 0] ]

\* the bloom update with the presence test forgotten
UpdateBloomUnguarded(p, intensity) ==
    [p EXCEPT !.strength = MulRound(Scale, 8, 10) + MulRound(intensity, 2, 1),
              !.radius = MulRound(Scale, 3, 10) + MulRound(intensity, 7, 10)]

UpdateBloom(p, intensity) ==
    IF p.present
    THEN [p EXCEPT !.strength = MulRound(Scale, 8, 10) + MulRound(intensity, 2, 1),
                   !.radius = MulRound(Scale, 3, 10) + MulRound(intensity, 7, 10)]
    ELSE p

UpdateRgbShift(p, intensity) ==
    IF p.present
    THEN [p EXCEPT !.amount = MulRound(Scale, 1, 1000) + MulRound(intensity, 12, 1000)]
    ELSE p

UpdateFilm(p, intensity) ==
    IF p.present
    THEN [p EXCEPT !.nIntensity = MulRound(Scale, 2, 10) + MulRound(intensity, 8, 10),
                   !.sIntensity = MulRound(Scale, 3, 10) + MulRound(intensity, 7, 10)]
    ELSE p

\* the vignette offset rising with the intensity instead of falling
UpdateVignetteRising(p, intensity) ==
    IF p.present
    THEN [p EXCEPT !.offset = MulRound(Scale, 9, 10) + MulRound(intensity, 4, 10),
                   !.darkness = Scale + MulRound(intensity, 8, 10)]
    ELSE p

UpdateVignette(p, intensity) ==
    IF p.present
    THEN [p EXCEPT !.offset = MulRound(Scale, 9, 10) - MulRound(intensity, 4, 10),
                   !.darkness = Scale + MulRound(intensity, 8, 10)]
    ELSE p

UpdateEffects(ps, intensity) ==
    [ bloomPass    |-> UpdateBloom(ps.bloomPass, intensity),
      rgbShiftPass |-> UpdateRgbShift(ps.rgbShiftPass, intensity),
      filmPass     |-> UpdateFilm(ps.filmPass, intensity),
      vignettePass |-> UpdateVignette(ps.vignettePass, intensity) ]

\* ---------------------------------------------------------- audio.js

\* a THREE.Audio as its constructor leaves it: no buffer, gain 1, not playing.
\* sources counts the buffer sources started and not yet stopped or ended;
\* playhead is 0 while the running playback is at its beginning, 1 later.
NewAudio ==
    [ created |-> TRUE, buffer |-> FALSE, loop |-> FALSE, volume |-> Scale,
      isPlaying |-> FALSE, sources |-> 0, playhead |-> 0 ]

\* the module-level reference before setupAudio has run
NoAudio == [NewAudio EXCEPT !.created = FALSE]

\* Audio.stop(): stops the running source and rewinds
AudioStop(s) ==
    [s EXCEPT !.isPlaying = FALSE,
              !.sources = IF @ > 0 THEN @ - 1 ELSE 0,
              !.playhead = 0]

\* Audio.play(): returns at once when already playing, else starts a source
AudioPlay(s) ==
    IF s.isPlaying THEN s
    ELSE [s EXCEPT !.isPlaying = TRUE, !.sources = @ + 1, !.playhead = 0]

\* the completion callback of the background music's load
BackgroundLoadedCallback(s) ==
    AudioPlay([s EXCEPT !.buffer = TRUE, !.loop = TRUE,
                        !.volume = MulRound(Scale, 5, 10)])

\* a THREE.PositionalAudio as its constructor leaves it (reference distance 1)
NewPositionalAudio ==
    [ created |-> TRUE, buffer |-> FALSE, loop |-> FALSE, volume |-> Scale,
      isPlaying |-> FALSE, sources |-> 0, playhead |-> 0,
      refDistance |-> Scale ]

\* the heartbeat sources with play() called at set-up, outside the callback
BuiltHeartbeatsPlaying ==
    [i \in 1 .. NumHeartbeats |-> AudioPlay(NewPositionalAudio)]

\* the heartbeat and the ambient sources as setupAudio leaves them (their
\* positions and the ambient files, which no handler reads, are left out)
BuiltHeartbeats == [i \in 1 .. NumHeartbeats |-> NewPositionalAudio]

BuiltAmbients == [j \in 1 .. NumAmbient |-> NewPositionalAudio]

\* the completion callback of a heartbeat's load
HeartbeatLoadedCallback(s) ==
    AudioPlay([s EXCEPT !.buffer = TRUE, !.refDistance = 20 * Scale,
                        !.loop = TRUE, !.volume = MulRound(Scale, 8, 10)])

\* values of Math.random(), in [0, 1)
RandomSamples == { 0, Scale \div 2, Scale - 1 }

\* the completion callback of an ambient sound's load, Math.random() giving r
AmbientLoadedCallback(s, r) ==
    AudioPlay([s EXCEPT !.buffer = TRUE, !.refDistance = 25 * Scale,
                        !.loop = TRUE,
                        !.volume = MulRound(Scale, 3, 10) + MulRound(r, 5, 10)])

\* the completion callback of the pill sound's load
PillLoadedCallback(s) ==
    [s EXCEPT !.buffer = TRUE, !.volume = MulRound(Scale, 8, 10)]

\* the volume update made only once the buffer has loaded
UpdateAudioWhenLoaded(s, intensity) ==
    IF s.created /\ s.buffer
    THEN [s EXCEPT !.volume = MulRound(Scale, 3, 10) + MulRound(intensity, 7, 10)]
    ELSE s

UpdateAudio(s, intensity) ==
    IF s.created
    THEN [s EXCEPT !.volume = MulRound(Scale, 3, 10) + MulRound(intensity, 7, 10)]
    ELSE s

\* the trigger with the stop of the running playback forgotten
TriggerPillWithoutStop(s) ==
    IF s.created /\ s.buffer THEN AudioPlay(s) ELSE s

\* the trigger with the test of the buffer forgotten
TriggerPillUnloaded(s) ==
    IF s.created
    THEN AudioPlay(IF s.isPlaying THEN AudioStop(s) ELSE s)
    ELSE s

TriggerPill(s) ==
    IF s.created /\ s.buffer
    THEN AudioPlay(IF s.isPlaying THEN AudioStop(s) ELSE s)
    ELSE s

\* ----------------------------------------------------------- main.js

DistSq(p, q) ==
    (p[1] - q[1]) * (p[1] - q[1]) + (p[2] - q[2]) * (p[2] - q[2])
        + (p[3] - q[3]) * (p[3] - q[3])

\* Vector3.distanceTo, in thousandths (to the thousandth below 44 units, to the
\* unit beyond)
DistanceTo(p, q) ==
    LET d2 == DistSq(p, q)
    IN  IF d2 <= 2000 THEN ISqrt(d2 * 1000000) ELSE 1000 * ISqrt(d2)

\* the contribution growing with the distance instead of falling
ContributionInverted(dist) ==
    IF dist < 40 * 1000
    THEN MulRound(MulRound(dist, Scale \div 1000, 40), 33, 100)
    ELSE 0

\* if (dist < 40) baseIntensity += (1 - dist / 40) * 0.33
Contribution(dist) ==
    IF dist < 40 * 1000
    THEN MulRound(Scale - MulRound(dist, Scale \div 1000, 40), 33, 100)
    ELSE 0

RECURSIVE SumFrom(_, _, _)
SumFrom(pos, positions, i) ==
    IF i > Len(positions) THEN 0
    ELSE Contribution(DistanceTo(pos, positions[i])) + SumFrom(pos, positions, i + 1)

BaseIntensity(pos, positions) == Min(SumFrom(pos, positions, 1), Scale)

\* the base intensity of a frame with the camera at each site (the anomaly
\* positions never change, so it is computed once per site)
BaseAt == [pos \in CameraSites |-> BaseIntensity(pos, anomalyPositions)]

\* the decay with the snap to 0 forgotten
DecayWithoutSnap(p) == IF p > 0 THEN MulRound(p, 99, 100) ELSE p

\* if (pillIntensity > 0) { pillIntensity *= 0.99;
\*                          if (pillIntensity < 0.01) pillIntensity = 0; }
DecayPill(p) ==
    IF p > 0
    THEN LET q == MulRound(p, 99, 100)
         IN  IF q < MulRound(Scale, 1, 100) THEN 0 ELSE q
    ELSE p

\* the total with the clamp forgotten
TotalUnclamped(base, pill) == base + pill

\* Math.min(1, baseIntensity + pillIntensity)
TotalIntensity(base, pill) == Min(Scale, base + pill)

\* window.innerWidth / window.innerHeight, as the fraction in lowest terms
RECURSIVE Gcd(_, _)
Gcd(a, b) == IF b = 0 THEN a ELSE Gcd(b, a % b)

Aspect(w, h) == << w \div Gcd(w, h), h \div Gcd(w, h) >>

\* requestAnimationFrame(animate)
RequestAnimationFrame(p) == p + 1

\* the calls of one frame with the audio updated before the effects
FrameCallsAudioFirst(total, rsize, csize) ==
    << <<"controls.update">>,
       <<"updateWorld">>,
       <<"updateAudio", total>>,
       <<"updateEffects", total>>,
       <<"composer.render", rsize, csize>>,
       <<"requestAnimationFrame">> >>

\* the calls of one frame, in the order animate makes them
FrameCalls(total, rsize, csize) ==
    << <<"controls.update">>,
       <<"updateWorld">>,
       <<"updateEffects", total>>,
       <<"updateAudio", total>>,
       <<"composer.render", rsize, csize>>,
       <<"requestAnimationFrame">> >>

Init ==
    /\ window = InitialWindow
    /\ camera = [position |-> CameraStart,
                 aspect |-> Aspect(InitialWindow[1], InitialWindow[2])]
    /\ rendererSize = InitialWindow
    /\ composerSize = InitialWindow
    /\ pulsatingLights = BuiltLights
    /\ passes = BuiltPasses
    /\ backgroundMusic = NewAudio
    /\ pillSound = NewAudio
    /\ pillIntensity = 0
    /\ pending = 1
    /\ listening = FALSE
    /\ frame = [ran |-> FALSE, base |-> 0, boost |-> 0, total |-> 0, calls |-> << >>]
    /\ pillFrames = FrameCap
    /\ lastTrigger = "none"
    /\ heartbeatSounds = BuiltHeartbeats
    /\ ambientSounds = BuiltAmbients

\* a frame that uses the boost first and decays it afterwards
AnimateDecayAfterUse(site, k) ==
    LET base == BaseAt[site]
        pill == DecayPill(pillIntensity)
        total == TotalIntensity(base, pillIntensity)
    IN  /\ pending > 0
        /\ camera' = [camera EXCEPT !.position = site]
        /\ pulsatingLights' = UpdateWorld(k, Undefined, pulsatingLights)
        /\ pillIntensity' = pill
        /\ passes' = UpdateEffects(passes, total)
        /\ backgroundMusic' = UpdateAudio(backgroundMusic, total)
        /\ frame' = [ran |-> TRUE, base |-> base, boost |-> pillIntensity, total |-> total,
                     calls |-> FrameCalls(total, rendererSize, composerSize)]
        /\ pending' = RequestAnimationFrame(pending - 1)
        /\ listening' = TRUE
        /\ pillFrames' = Min(FrameCap, pillFrames + 1)
        /\ UNCHANGED << window, rendererSize, composerSize, pillSound,
                        lastTrigger >>
        /\ UNCHANGED positionalSounds

\* one run of animate: the controls have taken the camera to site, and the
\* elapsed time falls on quarter k of the pulse period
Animate(site, k) ==
    LET base == BaseAt[site]
        pill == DecayPill(pillIntensity)
        total == TotalIntensity(base, pill)
    IN  /\ pending > 0
        /\ camera' = [camera EXCEPT !.position = site]
        /\ pulsatingLights' = UpdateWorld(k, Undefined, pulsatingLights)
        /\ pillIntensity' = pill
        /\ passes' = UpdateEffects(passes, total)
        /\ backgroundMusic' = UpdateAudio(backgroundMusic, total)
        /\ frame' = [ran |-> TRUE, base |-> base, boost |-> pill, total |-> total,
                     calls |-> FrameCalls(total, rendererSize, composerSize)]
        /\ pending' = RequestAnimationFrame(pending - 1)
        /\ listening' = TRUE
        /\ pillFrames' = Min(FrameCap, pillFrames + 1)
        /\ UNCHANGED << window, rendererSize, composerSize, pillSound,
                        lastTrigger >>
        /\ UNCHANGED positionalSounds

\* the resize listener with the composer forgotten
ResizeWithoutComposer(w, h) ==
    /\ listening
    /\ window' = <<w, h>>
    /\ camera' = [camera EXCEPT !.aspect = Aspect(w, h)]
    /\ rendererSize' = <<w, h>>
    /\ UNCHANGED << composerSize, pulsatingLights, passes, backgroundMusic,
                    pillSound, pillIntensity, pending, listening, frame,
                    pillFrames, lastTrigger >>
    /\ UNCHANGED positionalSounds

\* the resize listener, the window now being w by h
Resize(w, h) ==
    /\ listening
    /\ window' = <<w, h>>
    /\ camera' = [camera EXCEPT !.aspect = Aspect(w, h)]
    /\ rendererSize' = <<w, h>>
    /\ composerSize' = <<w, h>>
    /\ UNCHANGED << pulsatingLights, passes, backgroundMusic,
                    pillSound, pillIntensity, pending, listening, frame,
                    pillFrames, lastTrigger >>
    /\ UNCHANGED positionalSounds

\* the keydown listener with the test of the key forgotten
KeyDownAnyKey(code) ==
    /\ listening
    /\ pillSound' = TriggerPill(pillSound)
    /\ pillIntensity' = Scale
    /\ pillFrames' = 0
    /\ lastTrigger' = IF ~pillSound.buffer THEN "silent"
                      ELSE IF pillSound.isPlaying THEN "playing"
                      ELSE "idle"
    /\ UNCHANGED << camera, window, rendererSize, composerSize,
                    pulsatingLights, passes, backgroundMusic, pending,
                    listening, frame >>
    /\ UNCHANGED positionalSounds

\* a keydown listener that adds to the boost instead of setting it
KeyDownAccumulating(code) ==
    /\ listening
    /\ IF code = "KeyE"
       THEN /\ pillSound' = TriggerPill(pillSound)
            /\ pillIntensity' = pillIntensity + Scale
            /\ pillFrames' = 0
            /\ lastTrigger' = IF ~pillSound.buffer THEN "silent"
                              ELSE IF pillSound.isPlaying THEN "playing"
                              ELSE "idle"
       ELSE UNCHANGED << pillSound, pillIntensity, pillFrames, lastTrigger >>
    /\ UNCHANGED << camera, window, rendererSize, composerSize,
                    pulsatingLights, passes, backgroundMusic, pending,
                    listening, frame >>
    /\ UNCHANGED positionalSounds

\* the keydown listener
KeyDown(code) ==
    /\ listening
    /\ IF code = "KeyE"
       THEN /\ pillSound' = TriggerPill(pillSound)
            /\ pillIntensity' = Scale
            /\ pillFrames' = 0
            /\ lastTrigger' = IF ~pillSound.buffer THEN "silent"
                              ELSE IF pillSound.isPlaying THEN "playing"
                              ELSE "idle"
       ELSE UNCHANGED << pillSound, pillIntensity, pillFrames, lastTrigger >>
    /\ UNCHANGED << camera, window, rendererSize, composerSize,
                    pulsatingLights, passes, backgroundMusic, pending,
                    listening, frame >>
    /\ UNCHANGED positionalSounds

\* sounds/music.mp3 has loaded
BackgroundLoaded ==
    /\ listening
    /\ ~backgroundMusic.buffer
    /\ backgroundMusic' = BackgroundLoadedCallback(backgroundMusic)
    /\ UNCHANGED << camera, window, rendererSize, composerSize,
                    pulsatingLights, passes, pillSound, pillIntensity, pending,
                    listening, frame, pillFrames, lastTrigger >>
    /\ UNCHANGED positionalSounds

\* sounds/take_pill.mp3 has loaded
PillLoaded ==
    /\ listening
    /\ ~pillSound.buffer
    /\ pillSound' = PillLoadedCallback(pillSound)
    /\ UNCHANGED << camera, window, rendererSize, composerSize,
                    pulsatingLights, passes, backgroundMusic, pillIntensity,
                    pending, listening, frame, pillFrames, lastTrigger >>
    /\ UNCHANGED positionalSounds

\* the pill sound plays on
PillAdvance ==
    /\ pillSound.isPlaying
    /\ pillSound.playhead = 0
    /\ pillSound' = [pillSound EXCEPT !.playhead = 1]
    /\ UNCHANGED << camera, window, rendererSize, composerSize,
                    pulsatingLights, passes, backgroundMusic, pillIntensity,
                    pending, listening, frame, pillFrames, lastTrigger >>
    /\ UNCHANGED positionalSounds

\* the pill sound reaches its end (Audio.onEnded)
PillEnded ==
    /\ pillSound.isPlaying
    /\ pillSound' = [pillSound EXCEPT !.isPlaying = FALSE, !.sources = 0,
                                      !.playhead = 0]
    /\ UNCHANGED << camera, window, rendererSize, composerSize,
                    pulsatingLights, passes, backgroundMusic, pillIntensity,
                    pending, listening, frame, pillFrames, lastTrigger >>
    /\ UNCHANGED positionalSounds

\* Spec: every handler, the camera anywhere; a boost is followed for
\* MaxBoostFrames frames after its trigger.
Frame ==
    /\ pillFrames < MaxBoostFrames \/ pillFrames = FrameCap
    /\ \E site \in CameraSites, k \in Quarters : Animate(site, k)

Resized == \E size \in WindowSizes : Resize(size[1], size[2])

KeyPressed == \E code \in KeyCodes : KeyDown(code)

Next ==
    \/ Frame
    \/ Resized
    \/ KeyPressed
    \/ BackgroundLoaded
    \/ PillLoaded
    \/ PillAdvance
    \/ PillEnded

Spec == Init /\ [][Next]_vars

\* SpecDecay: a boost is followed until it has died out, with the camera at
\* the start or on an anomaly, the window as it was and the music not loaded.
DecaySites == { CameraStart, <<0, 10, 300>> }

FrameDecay == \E site \in DecaySites : Animate(site, 0)

NextDecay ==
    \/ FrameDecay
    \/ KeyPressed
    \/ PillLoaded
    \/ PillAdvance
    \/ PillEnded

SpecDecay == Init /\ [][NextDecay]_vars

\* sounds/heartbeat.mp3 has loaded for heartbeat i
HeartbeatLoadedAt(i) ==
    /\ listening
    /\ ~heartbeatSounds[i].buffer
    /\ heartbeatSounds' =
           [heartbeatSounds EXCEPT ![i] = HeartbeatLoadedCallback(@)]
    /\ UNCHANGED << camera, window, rendererSize, composerSize,
                    pulsatingLights, passes, backgroundMusic, pillSound,
                    pillIntensity, pending, listening, frame, pillFrames,
                    lastTrigger, ambientSounds >>

\* the file of ambient sound j has loaded, Math.random() giving r
AmbientLoadedAt(j, r) ==
    /\ listening
    /\ ~ambientSounds[j].buffer
    /\ ambientSounds' =
           [ambientSounds EXCEPT ![j] = AmbientLoadedCallback(@, r)]
    /\ UNCHANGED << camera, window, rendererSize, composerSize,
                    pulsatingLights, passes, backgroundMusic, pillSound,
                    pillIntensity, pending, listening, frame, pillFrames,
                    lastTrigger, heartbeatSounds >>

HeartbeatLoaded == \E i \in 1 .. NumHeartbeats : HeartbeatLoadedAt(i)

AmbientLoaded ==
    \E j \in 1 .. NumAmbient, r \in RandomSamples : AmbientLoadedAt(j, r)

\* SpecAudio: the frames and the load completions of the looping sources, in
\* any order.
NextAudio ==
    \/ FrameDecay
    \/ BackgroundLoaded
    \/ HeartbeatLoaded
    \/ AmbientLoaded

SpecAudio == Init /\ [][NextAudio]_vars

\* SpecHooks: effects.js and audio.js on their own, from the moment they are
\* imported: setupEffects, setupAudio, updateEffects and updateAudio called in
\* any order.
InitHooks ==
    /\ window = InitialWindow
    /\ camera = [position |-> CameraStart,
                 aspect |-> Aspect(InitialWindow[1], InitialWindow[2])]
    /\ rendererSize = InitialWindow
    /\ composerSize = InitialWindow
    /\ pulsatingLights = BuiltLights
    /\ passes = NoPasses
    /\ backgroundMusic = NoAudio
    /\ pillSound = NoAudio
    /\ pillIntensity = 0
    /\ pending = 0
    /\ listening = FALSE
    /\ frame = [ran |-> FALSE, base |-> 0, boost |-> 0, total |-> 0, calls |-> << >>]
    /\ pillFrames = FrameCap
    /\ lastTrigger = "none"
    /\ heartbeatSounds = << >>
    /\ ambientSounds = << >>

\* the last two calls, call being the latest
LastTwo(calls, call) ==
    IF Len(calls) = 0 THEN << call >> ELSE << calls[Len(calls)], call >>

SetupEffectsCall ==
    /\ passes' = BuiltPasses
    /\ UNCHANGED << camera, window, rendererSize, composerSize,
                    pulsatingLights, backgroundMusic, pillSound, pillIntensity,
                    pending, listening, frame, pillFrames, lastTrigger,
                    heartbeatSounds, ambientSounds >>

SetupAudioCall ==
    /\ backgroundMusic' = NewAudio
    /\ pillSound' = NewAudio
    /\ heartbeatSounds' = BuiltHeartbeats
    /\ ambientSounds' = BuiltAmbients
    /\ UNCHANGED << camera, window, rendererSize, composerSize,
                    pulsatingLights, passes, pillIntensity, pending,
                    listening, frame, pillFrames, lastTrigger >>

UpdateEffectsCall(i) ==
    /\ passes' = UpdateEffects(passes, i)
    /\ frame' = [frame EXCEPT !.calls = LastTwo(@, <<"updateEffects", i>>)]
    /\ UNCHANGED << camera, window, rendererSize, composerSize,
                    pulsatingLights, backgroundMusic, pillSound, pillIntensity,
                    pending, listening, pillFrames, lastTrigger,
                    heartbeatSounds, ambientSounds >>

UpdateAudioCall(i) ==
    /\ backgroundMusic' = UpdateAudio(backgroundMusic, i)
    /\ frame' = [frame EXCEPT !.calls = LastTwo(@, <<"updateAudio", i>>)]
    /\ UNCHANGED << camera, window, rendererSize, composerSize,
                    pulsatingLights, passes, pillSound, pillIntensity,
                    pending, listening, pillFrames, lastTrigger,
                    heartbeatSounds, ambientSounds >>

UpdateEffectsCalled == \E i \in EffectSamples : UpdateEffectsCall(i)

UpdateAudioCalled == \E i \in EffectSamples : UpdateAudioCall(i)

NextHooks ==
    \/ SetupEffectsCall
    \/ SetupAudioCall
    \/ UpdateEffectsCalled
    \/ UpdateAudioCalled

SpecHooks == InitHooks /\ [][NextHooks]_vars

\* ------------------------------------------------------------ properties

\* the intensity updateEffects and updateAudio were called with in the last
\* frame
EffectsArg == frame.calls[3][2]
AudioArg == frame.calls[4][2]

\* C1: in every frame the total intensity forwarded to updateEffects and
\* updateAudio lies in [0, 1], however many anomalies are in range and whatever
\* the boost.
C1_TotalInUnitRange ==
    frame.ran =>
        /\ frame.total >= 0 /\ frame.total <= Scale
        /\ EffectsArg >= 0 /\ EffectsArg <= Scale
        /\ AudioArg >= 0 /\ AudioArg <= Scale

\* a frame in the cluster (four anomalies in range) with a live boost, after a
\* resize and with the music loaded: base + boost exceeds 1, 1 is forwarded
C1_Witness ==
    /\ frame.ran
    /\ camera.position = <<150, 10, 0>>
    /\ frame.boost > 0
    /\ frame.base + frame.boost > Scale
    /\ EffectsArg = Scale
    /\ AudioArg = Scale
    /\ window # InitialWindow
    /\ backgroundMusic.buffer

\* the anomalies within 40 of pos (the squared distance below 1600)
InRange(pos) ==
    { i \in 1 .. NumAnomalies : DistSq(pos, anomalyPositions[i]) < 40 * 40 }

\* twice the sum over the anomalies in S of (1 - d/40) * 0.33, d in thousandths
RECURSIVE TwiceTerms(_, _)
TwiceTerms(pos, S) ==
    IF S = {} THEN 0
    ELSE LET i == CHOOSE x \in S : TRUE
         IN  (40000 - DistanceTo(pos, anomalyPositions[i])) * 165
                 + TwiceTerms(pos, S \ {i})

\* C2: the base intensity of a frame is min(1, sum over the anomalies at
\* distance d < 40 of (1 - d/40) * 0.33): nothing from an anomaly at 40 or
\* beyond, 0.33 for one anomaly at distance 0, 0.165 for one at distance 20.
C2_BaseIntensity ==
    frame.ran =>
        LET pos == camera.position
            near == InRange(pos)
        IN  /\ \A i \in near :
                LET d == DistanceTo(pos, anomalyPositions[i])
                    sq == DistSq(pos, anomalyPositions[i]) * 1000000
                IN  d * d <= sq /\ sq < (d + 1) * (d + 1)
            /\ Abs(2 * frame.base - Min(2 * Scale, TwiceTerms(pos, near)))
                   <= Cardinality(near)
            /\ near = {} => frame.base = 0
            /\ \A i \in near :
                   /\ near = {i} /\ DistSq(pos, anomalyPositions[i]) = 0
                          => frame.base = 3300000
                   /\ near = {i} /\ DistSq(pos, anomalyPositions[i]) = 20 * 20
                          => frame.base = 1650000

\* a frame with one anomaly in range, 20 away: the base intensity is 0.165
C2_Witness ==
    /\ frame.ran
    /\ camera.position = <<0, 10, 280>>
    /\ InRange(camera.position) = {5}
    /\ frame.base = 1650000

\* what C3 says of one step: right after a trigger the boost is 1.0; for 458
\* frames it is positive, each frame taking it to 0.99 of what it was (to the
\* nearest unit); from frame 459 on it is 0
C3_Step ==
    /\ pillFrames' = 0 => pillIntensity' = Scale
    /\ pillFrames' >= 1 /\ pillFrames' <= 458 =>
           /\ pillIntensity' > 0
           /\ pillFrames' = pillFrames + 1 =>
                  Abs(100 * pillIntensity' - 99 * pillIntensity) <= 50
    /\ pillFrames' >= 459 => pillIntensity' = 0

\* C3: from a trigger (boost 1.0) and with no further trigger, every frame
\* multiplies the boost by 0.99; it reaches 0 after exactly 459 frames (still
\* positive after 458) and stays 0 in every later frame until the next
\* trigger.
C3_BoostDecay == [][C3_Step]_vars

\* 459 frames after a trigger the boost has just become 0
C3_Witness ==
    /\ pillFrames = 459
    /\ lastTrigger # "none"
    /\ pillIntensity = 0
    /\ frame.boost = 0

\* C4: every press of KeyE calls triggerPill and sets the boost to exactly
\* 1.0 whatever it was; a press of any other key leaves the boost and the pill
\* sound as they were.
C4_KeyPress ==
    [][\A code \in KeyCodes :
          KeyDown(code) =>
              IF code = "KeyE"
              THEN /\ pillIntensity' = Scale
                   /\ pillSound.buffer =>
                          /\ pillSound'.isPlaying
                          /\ pillSound'.playhead = 0
                   /\ ~pillSound.buffer => pillSound' = pillSound
              ELSE /\ pillIntensity' = pillIntensity
                   /\ pillSound' = pillSound]_vars

\* KeyE was pressed in the middle of a decay (the last frame left a boost
\* strictly between 0 and 1) and the boost is 1.0 again
C4_Witness ==
    /\ pillFrames = 0
    /\ pillIntensity = Scale
    /\ frame.ran
    /\ frame.boost > 0
    /\ frame.boost < Scale

\* C5: a trigger while the pill sound is playing stops the running playback
\* before it starts the new one, which begins at the beginning; at no time is
\* more than one playback of the pill sound active.
C5_NoOverlap ==
    /\ pillSound.sources <= 1
    /\ [][/\ pillSound'.sources <= 1
          /\ KeyDown("KeyE") /\ pillSound.buffer /\ pillSound.isPlaying =>
                 /\ pillSound'.isPlaying
                 /\ pillSound'.sources = 1
                 /\ pillSound'.playhead = 0]_vars

\* the last trigger found the sound playing; one playback runs, from its start
C5_Witness ==
    /\ lastTrigger = "playing"
    /\ pillFrames = 0
    /\ pillSound.isPlaying
    /\ pillSound.sources = 1
    /\ pillSound.playhead = 0

\* C6: triggerPill before the pill sound's buffer has loaded (or before
\* setupAudio has created the sound) starts nothing and changes no audio
\* state; the load-completion callback never starts playback; so the sound
\* starts playing only by a trigger made after its buffer has loaded.
C6_TriggerBeforeLoad ==
    /\ TriggerPill(NoAudio) = NoAudio
    /\ [][/\ KeyDown("KeyE") /\ ~pillSound.buffer =>
                 /\ pillSound' = pillSound
                 /\ backgroundMusic' = backgroundMusic
          /\ PillLoaded => ~pillSound'.isPlaying /\ pillSound'.sources = 0
          /\ ~pillSound.isPlaying /\ pillSound'.isPlaying =>
                 pillSound.buffer /\ KeyDown("KeyE")]_vars

\* KeyE was pressed with the buffer not loaded: the boost is up, nothing plays
C6_Witness ==
    /\ lastTrigger = "silent"
    /\ pillFrames = 0
    /\ pillIntensity = Scale
    /\ ~pillSound.buffer
    /\ ~pillSound.isPlaying
    /\ pillSound.sources = 0

\* every parameter rises with the intensity, the vignette offset falls
EffectsMonotone ==
    \A i, j \in EffectSamples :
        i <= j =>
            LET a == UpdateEffects(BuiltPasses, i)
                b == UpdateEffects(BuiltPasses, j)
            IN  /\ a.bloomPass.strength <= b.bloomPass.strength
                /\ a.bloomPass.radius <= b.bloomPass.radius
                /\ a.rgbShiftPass.amount <= b.rgbShiftPass.amount
                /\ a.filmPass.nIntensity <= b.filmPass.nIntensity
                /\ a.filmPass.sIntensity <= b.filmPass.sIntensity
                /\ a.vignettePass.offset >= b.vignettePass.offset
                /\ a.vignettePass.darkness <= b.vignettePass.darkness

\* C7: after updateEffects(i), i in [0, 1]: bloom strength 0.8 + 2.0 i, bloom
\* radius 0.3 + 0.7 i, chromatic shift 0.001 + 0.012 i, grain 0.2 + 0.8 i,
\* scanline 0.3 + 0.7 i, vignette offset 0.9 - 0.4 i, vignette darkness
\* 1.0 + 0.8 i (each to the nearest unit); linear and monotonic in i (bloom
\* strength from 0.8 to 2.8, vignette offset from 0.9 to 0.5), whatever the
\* earlier calls left.
C7_EffectMappings ==
    /\ EffectsMonotone
    /\ frame.ran =>
           LET i == EffectsArg
           IN  /\ passes.bloomPass.strength = 8000000 + 2 * i
               /\ Abs(10 * (passes.bloomPass.radius - 3000000) - 7 * i) <= 5
               /\ Abs(1000 * (passes.rgbShiftPass.amount - 10000) - 12 * i) <= 500
               /\ Abs(10 * (passes.filmPass.nIntensity - 2000000) - 8 * i) <= 5
               /\ Abs(10 * (passes.filmPass.sIntensity - 3000000) - 7 * i) <= 5
               /\ Abs(10 * (9000000 - passes.vignettePass.offset) - 4 * i) <= 5
               /\ Abs(10 * (passes.vignettePass.darkness - Scale) - 8 * i) <= 5
               /\ i = 0 => /\ passes.bloomPass.strength = 8000000
                           /\ passes.vignettePass.offset = 9000000
               /\ i = Scale => /\ passes.bloomPass.strength = 28000000
                               /\ passes.vignettePass.offset = 5000000

\* a frame at intensity 0.165, no boost: bloom strength 1.13, offset 0.834
C7_Witness ==
    /\ frame.ran
    /\ EffectsArg = 1650000
    /\ passes.bloomPass.strength = 11300000
    /\ passes.vignettePass.offset = 8340000
    /\ pillFrames = FrameCap

\* C8: in every frame the world update sets every tracked pulsating light to
\* 1.5 + 1.5 I + 0.5 sin(3 t), t the elapsed time and I the global intensity
\* (a number in [0, 1]).
C8_LightFormula ==
    [][\A site \in CameraSites, k \in Quarters :
          Animate(site, k) =>
              \A l \in DOMAIN pulsatingLights' :
                  /\ pulsatingLights'[l].t = "num"
                  /\ \E I \in { frame.total, frame'.total } :
                         2 * pulsatingLights'[l].v
                             = 3 * Scale + 3 * I + SinQuarter(k)]_vars

\* C9: a frame runs controls update, world update, intensity (base, then
\* boost decay, then total), updateEffects, updateAudio, composer render and
\* the scheduling of the next frame, in this order and with no other handler
\* in between; updateEffects and updateAudio get the same total, the one of
\* that frame; every frame schedules exactly one next frame.
C9_FrameOrder ==
    /\ pending = 1
    /\ frame.ran =>
           /\ [c \in 1 .. Len(frame.calls) |-> frame.calls[c][1]]
                  = << "controls.update", "updateWorld", "updateEffects",
                       "updateAudio", "composer.render",
                       "requestAnimationFrame" >>
           /\ EffectsArg = frame.total
           /\ AudioArg = frame.total
           /\ frame.total = Min(Scale, frame.base + frame.boost)
           /\ passes.bloomPass.strength = 8000000 + 2 * frame.total
           /\ pillFrames > 0 => pillIntensity = frame.boost

\* a frame has run with a boost and a base both in play, and one next frame
\* is scheduled
C9_Witness ==
    /\ frame.ran
    /\ pending = 1
    /\ frame.base > 0
    /\ frame.boost > 0
    /\ frame.total < Scale
    /\ EffectsArg = frame.total
    /\ AudioArg = frame.total

\* the sizes the last composer render ran with
RenderArgs == << frame.calls[5][2], frame.calls[5][3] >>

\* C10: after every resize the camera aspect is the new width / the new
\* height and the renderer and the composer both have the new size; so at
\* every composer render the two sizes are equal.
C10_ResizeConsistent ==
    /\ rendererSize = window
    /\ composerSize = window
    /\ camera.aspect[1] * window[2] = camera.aspect[2] * window[1]
    /\ frame.ran => RenderArgs[1] = RenderArgs[2]

\* a frame rendered after a resize to 800 by 600
C10_Witness ==
    /\ window = <<800, 600>>
    /\ rendererSize = <<800, 600>>
    /\ composerSize = <<800, 600>>
    /\ camera.aspect = <<4, 3>>
    /\ frame.ran
    /\ RenderArgs = << <<800, 600>>, <<800, 600>> >>

\* C11: at the end of every frame the music volume is 0.3 + 0.7 * (the
\* frame's total intensity), to the nearest unit, hence in [0.3, 1.0], whether
\* or not the music buffer has loaded; the 0.5 the load-completion callback
\* sets between two frames is overwritten by the next frame.
C11_MusicVolume ==
    [][/\ (\E site \in CameraSites, k \in Quarters : Animate(site, k)) =>
              /\ Abs(10 * (backgroundMusic'.volume - 3000000) - 7 * frame'.total)
                     <= 5
              /\ backgroundMusic'.volume >= 3000000
              /\ backgroundMusic'.volume <= Scale
       /\ BackgroundLoaded => backgroundMusic'.volume = 5000000]_vars

\* the music has loaded (volume 0.5) and a later frame, at intensity 1, has
\* set the volume to 1.0
C11_Witness ==
    /\ backgroundMusic.buffer
    /\ backgroundMusic.isPlaying
    /\ frame.ran
    /\ frame.total = Scale
    /\ backgroundMusic.volume = Scale

\* a looping source plays only with its buffer loaded, once, and looping
LoopSound(s) ==
    /\ s.isPlaying => s.buffer /\ s.loop /\ s.sources = 1
    /\ ~s.buffer => ~s.isPlaying /\ s.sources = 0

\* C12: each looping source (music, heartbeats, ambient sounds) starts playing
\* only in its own load-completion callback, the callbacks coming between
\* frames in any order; a source that has not loaded does not play, and a
\* frame can run whichever sources have loaded.
C12_LoopingSources ==
    /\ LoopSound(backgroundMusic)
    /\ \A i \in 1 .. NumHeartbeats : LoopSound(heartbeatSounds[i])
    /\ \A j \in 1 .. NumAmbient : LoopSound(ambientSounds[j])
    /\ [][/\ LoopSound(backgroundMusic')
          /\ \A i \in 1 .. NumHeartbeats : LoopSound(heartbeatSounds'[i])
          /\ \A j \in 1 .. NumAmbient : LoopSound(ambientSounds'[j])
          /\ ~backgroundMusic.isPlaying /\ backgroundMusic'.isPlaying
                 => BackgroundLoaded
          /\ \A i \in 1 .. NumHeartbeats :
                 ~heartbeatSounds[i].isPlaying /\ heartbeatSounds'[i].isPlaying
                     => HeartbeatLoadedAt(i)
          /\ \A j \in 1 .. NumAmbient :
                 ~ambientSounds[j].isPlaying /\ ambientSounds'[j].isPlaying
                     => \E r \in RandomSamples : AmbientLoadedAt(j, r)
          /\ pending' = 1
          /\ ENABLED FrameDecay]_vars

\* the second heartbeat and an ambient sound play, the first heartbeat has not
\* loaded, and a frame has run since the music loaded
C12_Witness ==
    /\ heartbeatSounds[2].isPlaying
    /\ ~heartbeatSounds[1].buffer
    /\ ~heartbeatSounds[1].isPlaying
    /\ ambientSounds[1].isPlaying
    /\ ~ambientSounds[2].buffer
    /\ backgroundMusic.isPlaying
    /\ backgroundMusic.volume # 5000000
    /\ frame.ran
    /\ pending = 1

\* C13: updateEffects with the pass references absent (before setupEffects)
\* and updateAudio with the music absent (before setupAudio) do nothing,
\* whatever the intensity: no parameter is written.
C13_AbsentReferences ==
    [][\A i \in EffectSamples :
          /\ UpdateEffectsCall(i) /\ passes = NoPasses =>
                 /\ passes' = NoPasses
                 /\ backgroundMusic' = backgroundMusic
          /\ UpdateAudioCall(i) /\ ~backgroundMusic.created =>
                 /\ backgroundMusic' = NoAudio
                 /\ passes' = passes]_vars

\* updateEffects(1) then updateAudio(1) have been called before either set-up
\* and nothing is written
C13_Witness ==
    /\ frame.calls = << <<"updateEffects", Scale>>, <<"updateAudio", Scale>> >>
    /\ passes = NoPasses
    /\ backgroundMusic = NoAudio

\* C14: in every reachable state the pill boost is exactly 0 or lies in
\* [0.01, 1.0]: never negative, never above 1.0, never positive below 0.01;
\* a trigger sets it to 1.0 however many came before, it does not add up.
C14_BoostRange ==
    /\ pillIntensity = 0 \/ (pillIntensity >= Scale \div 100 /\ pillIntensity <= Scale)
    /\ pillFrames = 0 => pillIntensity = Scale
    /\ lastTrigger = "none" => pillIntensity = 0

\* the last positive value, 458 frames after a trigger: one more decay would
\* fall below 0.01
C14_Witness ==
    /\ pillFrames = 458
    /\ pillIntensity >= Scale \div 100
    /\ 99 * pillIntensity < 100 * (Scale \div 100)

\* C15: the boost is decayed before it is used, so the boost term of a frame
\* is at most 0.99, and the first frame after a press of KeyE passes a total
\* of at least 0.99 to both update hooks, wherever the camera is and whether
\* or not the pill sound has loaded.
C15_DecayBeforeUse ==
    frame.ran =>
        /\ frame.boost <= 9900000
        /\ pillFrames = 1 =>
               /\ frame.boost = 9900000
               /\ frame.total >= 9900000
               /\ EffectsArg >= 9900000
               /\ AudioArg >= 9900000

\* the first frame after a silent trigger, far from every anomaly: the total
\* is the boost term alone, 0.99
C15_Witness ==
    /\ pillFrames = 1
    /\ lastTrigger = "silent"
    /\ ~pillSound.buffer
    /\ frame.base = 0
    /\ frame.boost = 9900000
    /\ frame.total = 9900000
    /\ AudioArg = 9900000

====
